---- MODULE Spec2Model ----
(***************************************************************************)
(* Model of three constructs of the landing-zone accelerator:              *)
(*   - OrganizationalUnit   (aws-organizations/organizational-unit.ts)     *)
(*   - AcceleratorPipeline  (accelerator/lib/pipeline.ts)                  *)
(*   - EnableAwsServiceAccess (aws-organizations, enable-aws-service-access)*)
(* Each construct is checked under a specification of its own: SpecOU,     *)
(* SpecPipeline, SpecAccess.  The variables of the other two constructs    *)
(* stay at their initial values.                                           *)
(***************************************************************************)
EXTENDS Integers, Sequences, FiniteSets, TLC

VARIABLES
    \* ---- OrganizationalUnit: one process, synthesis then deployment
    isLogGroupConfigured,   \* static OrganizationalUnit.isLogGroupConfigured
    units,                  \* OrganizationalUnit instances, in instantiation order
    providers,              \* stacks that hold the custom resource provider
    customResources,        \* the 'Resource' child of each unit
    logGroups,              \* the LogGroup constructs created so far
    phase,                  \* "synth" while constructs are instantiated, then "deploy"
    deployed,               \* resources the provisioning engine has created
    \* ---- AcceleratorPipeline: construction, then executions by the pipeline service
    stages,                 \* the pipeline's stages, in addStage order
    actionState,            \* <<stage, action>> -> Pending | Running | Succeeded | Failed
    execution,              \* Idle | InProgress | Succeeded | Failed
    startedBy,              \* what started each execution so far
    artifacts,              \* artifacts stored by the current execution
    commits,                \* number of changes pushed to the source repositories
    \* ---- EnableAwsServiceAccess: declared grants and the organization they act on
    grants,                 \* EnableAwsServiceAccess constructs with their custom resource
    enabled,                \* service principals enabled in the organization
    lastEvent               \* the last lifecycle event handled, with the set before it

ouVars == <<isLogGroupConfigured, units, providers, customResources, logGroups,
            phase, deployed>>

accessVars == <<grants, enabled, lastEvent>>

pipelineVars == <<stages, actionState, execution, startedBy, artifacts, commits>>

vars == <<isLogGroupConfigured, units, providers, customResources, logGroups,
          phase, deployed,
          stages, actionState, execution, startedBy, artifacts, commits,
          grants, enabled, lastEvent>>

(***************************************************************************)
(* Bounds and input domains                                                *)
(***************************************************************************)
MaxUnits == 3
MaxExecutions == 2
MaxCommits == 2
MaxGrants == 2

Stacks == {"StackA", "StackB"}
Names == {"Security", "Infrastructure"}
Paths == {"/"}
Keys == {"key1", "key2"}
RetentionDays == {7, 30}

OrganizationalUnitProps ==
    [name : Names, path : Paths, kmsKey : Keys, logRetentionInDays : RetentionDays]

(***************************************************************************)
(* OrganizationalUnit                                                      *)
(***************************************************************************)
\* The provider's 'Handler' child (a CfnFunction) of a stack; its ref.
Handler(stack) == [kind |-> "Handler", stack |-> stack]

\* cdk.CustomResourceProvider.getOrCreateProvider(this, type, ...): one provider
\* per stack; the set of stacks holding one after the call from `scope`.
getOrCreateProvider(scope) == providers \cup {scope}

\* new cdk.CustomResource(this, 'Resource', {serviceToken, properties: {name, path}})
CustomResource(id, scope, props) ==
    [kind |-> "Resource", unit |-> id,
     serviceToken |-> Handler(scope),
     name |-> props.name, path |-> props.path,
     dependsOn |-> {}]

\* retention: props.logRetentionInDays
LogGroupRetention(props) == props.logRetentionInDays

\* encryptionKey: props.kmsKey
LogGroupEncryptionKey(props) == props.kmsKey

\* new cdk.aws_logs.LogGroup(this, 'LogGroup', {...})
LogGroup(id, scope, props) ==
    [kind |-> "LogGroup", unit |-> id,
     logGroupName |-> <<"/aws/lambda/", Handler(scope)>>,
     retention |-> LogGroupRetention(props),
     encryptionKey |-> LogGroupEncryptionKey(props)]

\* Mutant: the guard is dropped and every instance creates a log group.
LogGroupGuard_Always == TRUE

\* if (!OrganizationalUnit.isLogGroupConfigured)
LogGroupGuard == ~isLogGroupConfigured

\* Mutant: the dependency on the log group is not added.
addDependency_Dropped(resource, logGroup) == resource

\* resource.node.addDependency(logGroup)
addDependency(resource, logGroup) ==
    [resource EXCEPT !.dependsOn = @ \cup {[kind |-> "LogGroup", unit |-> logGroup.unit]}]

\* Mutant: the flag is left as it was after the log group is created.
FlagAfterLogGroup_NotSet == isLogGroupConfigured

\* OrganizationalUnit.isLogGroupConfigured = true
FlagAfterLogGroup == TRUE

\* new OrganizationalUnit(scope, id, props); the scope is a stack and the
\* construct id is the position of the instance in the process.
OrganizationalUnit(scope, props) ==
    /\ phase = "synth"
    /\ Len(units) < MaxUnits
    /\ LET id == Len(units) + 1
           resource == CustomResource(id, scope, props)
           logGroup == LogGroup(id, scope, props)
       IN /\ units' = Append(units,
                 [id |-> id, scope |-> scope,
                  organizationalUnitName |-> props.name,
                  organizationalUnitPath |-> props.path,
                  props |-> props])
          /\ providers' = getOrCreateProvider(scope)
          /\ IF LogGroupGuard
                THEN /\ logGroups' = Append(logGroups, logGroup)
                     /\ customResources' =
                            Append(customResources, addDependency(resource, logGroup))
                     /\ isLogGroupConfigured' = FlagAfterLogGroup
                ELSE /\ customResources' = Append(customResources, resource)
                     /\ UNCHANGED <<logGroups, isLogGroupConfigured>>
    /\ UNCHANGED <<phase, deployed>>
    /\ UNCHANGED <<pipelineVars, accessVars>>

\* The synthesis pass ends: the construct tree is handed to the deployment.
Synthesize ==
    /\ phase = "synth"
    /\ Len(units) >= 1
    /\ phase' = "deploy"
    /\ UNCHANGED <<isLogGroupConfigured, units, providers, customResources,
                   logGroups, deployed>>
    /\ UNCHANGED <<pipelineVars, accessVars>>

\* The resources of the synthesized templates, by reference.
ResourceRef(r) ==
    IF r.kind = "Handler" THEN r ELSE [kind |-> r.kind, unit |-> r.unit]

Resources ==
    {Handler(s) : s \in providers}
        \cup {ResourceRef(customResources[i]) : i \in 1..Len(customResources)}
        \cup {ResourceRef(logGroups[i]) : i \in 1..Len(logGroups)}

\* What a resource must wait for: its explicit dependencies and the resources
\* it references (the handler, through serviceToken or logGroupName).
DependenciesOf(ref) ==
    IF ref.kind = "Handler" THEN {}
    ELSE IF ref.kind = "Resource"
         THEN customResources[ref.unit].dependsOn
                  \cup {customResources[ref.unit].serviceToken}
         ELSE {lg[2] : lg \in {logGroups[i].logGroupName : i \in
                  {j \in 1..Len(logGroups) : logGroups[j].unit = ref.unit}}}

\* The provisioning engine creates one resource whose dependencies exist.
DeployResource(ref) ==
    /\ phase = "deploy"
    /\ ref \in Resources \ deployed
    /\ DependenciesOf(ref) \subseteq deployed
    /\ deployed' = deployed \cup {ref}
    /\ UNCHANGED <<isLogGroupConfigured, units, providers, customResources,
                   logGroups, phase>>
    /\ UNCHANGED <<pipelineVars, accessVars>>

(***************************************************************************)
(* AcceleratorPipeline                                                     *)
(***************************************************************************)
\* An optional value: an absent property (undefined) or a present one.
None == <<>>
Some(x) == <<x>>

SourceRepositoryNames == {"aws-accelerator-source", "accelerator-fork"}
SourceBranchNames == {"main", "develop"}
AcceleratorPipelineProps ==
    [sourceRepositoryName : SourceRepositoryNames, sourceBranchName : SourceBranchNames]

\* new codepipeline.Artifact('Source'), ('Config'), ('Build')
acceleratorRepoArtifact == "Source"
configRepoArtifact == "Config"
buildOutput == "Build"

\* repositoryName of the ConfigRepository construct
configRepository == "accelerator-config"

\* Mutant: the Source action keeps the default trigger.
SourceTrigger_Events == "EVENTS"

\* trigger: codepipeline_actions.CodeCommitTrigger.NONE, of the two source actions
SourceTrigger == "NONE"
ConfigurationTrigger == "NONE"

\* new codepipeline_actions.CodeCommitSourceAction({actionName, repository, branch,
\* output, trigger}): no runOrder and no input are passed.
CodeCommitSourceAction(actionName, repository, branch, output, trigger) ==
    [actionName |-> actionName, provider |-> "CodeCommit",
     runOrder |-> None, input |-> None, extraInputs |-> {}, outputs |-> {output},
     repository |-> Some(repository), branch |-> Some(branch),
     trigger |-> Some(trigger), cdkOptions |-> None]

\* new codepipeline_actions.CodeBuildAction({actionName, runOrder, project, input,
\* extraInputs, outputs, ...})
CodeBuildAction(actionName, runOrder, input, extraInputs, outputs, cdkOptions) ==
    [actionName |-> actionName, provider |-> "CodeBuild",
     runOrder |-> runOrder, input |-> input, extraInputs |-> extraInputs,
     outputs |-> outputs,
     repository |-> None, branch |-> None, trigger |-> None,
     cdkOptions |-> cdkOptions]

\* Mutant: the Build action reads its own output.
BuildInput_BuildOutput == buildOutput

\* input: this.acceleratorRepoArtifact, of the Build action
BuildInput == acceleratorRepoArtifact

\* Mutant: the toolkit action is created without its input artifact.
createToolkitStage_NoInput(actionName, cdkOptions, runOrder) ==
    CodeBuildAction(actionName, runOrder, None, {configRepoArtifact},
                    {}, Some(cdkOptions))

\* private createToolkitStage(actionName, cdkOptions, runOrder?)
createToolkitStage(actionName, cdkOptions, runOrder) ==
    CodeBuildAction(actionName, runOrder, Some(buildOutput), {configRepoArtifact},
                    {}, Some(cdkOptions))

\* pipeline.addStage({stageName: 'Source', actions: [Source, Configuration]})
SourceStage(props) ==
    [stageName |-> "Source",
     actions |-> <<CodeCommitSourceAction("Source", props.sourceRepositoryName,
                       props.sourceBranchName, acceleratorRepoArtifact, SourceTrigger),
                   CodeCommitSourceAction("Configuration", configRepository,
                       "main", configRepoArtifact, ConfigurationTrigger)>>]

\* pipeline.addStage({stageName: 'Build', actions: [Build]})
BuildStage ==
    [stageName |-> "Build",
     actions |-> <<CodeBuildAction("Build", None, Some(BuildInput), {},
                                   {buildOutput}, None)>>]

\* Mutant: the Bootstrap action is given a run order.
BootstrapStage_WithRunOrder ==
    [stageName |-> "Bootstrap",
     actions |-> <<createToolkitStage("Bootstrap", "bootstrap --partition", Some(1))>>]

\* pipeline.addStage({stageName: 'Bootstrap', ...})
BootstrapStage ==
    [stageName |-> "Bootstrap",
     actions |-> <<createToolkitStage("Bootstrap", "bootstrap --partition", None)>>]

\* pipeline.addStage({stageName: 'Logging', ...})
LoggingStage ==
    [stageName |-> "Logging",
     actions |-> <<createToolkitStage("Logging", "deploy --stage LOGGING", None)>>]

\* pipeline.addStage({stageName: 'Organization', ...})
OrganizationStage ==
    [stageName |-> "Organization",
     actions |-> <<createToolkitStage("Organizations",
                                      "deploy --stage ORGANIZATIONS", None)>>]

\* pipeline.addStage({stageName: 'SecurityAudit', ...})
SecurityAuditStage ==
    [stageName |-> "SecurityAudit",
     actions |-> <<createToolkitStage("SecurityAudit",
                                      "deploy --stage SECURITY-AUDIT", None)>>]

\* pipeline.addStage({stageName: 'Deploy', actions: [Security (runOrder 1)]})
DeployStage ==
    [stageName |-> "Deploy",
     actions |-> <<createToolkitStage("Security", "deploy --stage SECURITY", Some(1))>>]

\* Mutant: the Validate stage is added after Bootstrap.
AddedStages_WithValidate(props) ==
    <<SourceStage(props), BuildStage, BootstrapStage,
      [stageName |-> "Validate",
       actions |-> <<createToolkitStage("Validate", "deploy --stage VALIDATE", None)>>],
      LoggingStage, OrganizationStage, SecurityAuditStage, DeployStage>>

\* The addStage calls of the constructor, in call order.
AddedStages(props) ==
    <<SourceStage(props), BuildStage, BootstrapStage, LoggingStage,
      OrganizationStage, SecurityAuditStage, DeployStage>>

\* The <<stage, action>> positions of a list of stages.
ActionIds(stgs) ==
    UNION {{<<si, ai>> : ai \in 1..Len(stgs[si].actions)} : si \in 1..Len(stgs)}

ActionAt(id) == stages[id[1]].actions[id[2]]

\* new AcceleratorPipeline(scope, id, props)
AcceleratorPipeline(props) ==
    /\ stages = <<>>
    /\ stages' = AddedStages(props)
    /\ actionState' = [id \in ActionIds(AddedStages(props)) |-> "Pending"]
    /\ UNCHANGED <<execution, startedBy, artifacts, commits>>
    /\ UNCHANGED <<ouVars, accessVars>>

\* ---- The pipeline service executing the declared pipeline

\* The run order of an action: the declared one, or the service's default of 1.
RunOrderOf(a) == IF a.runOrder = None THEN 1 ELSE a.runOrder[1]

\* The artifacts an action reads.
InputsOf(a) == {a.input[i] : i \in 1..Len(a.input)} \cup a.extraInputs

Begin(by) ==
    /\ execution' = "InProgress"
    /\ startedBy' = Append(startedBy, by)
    /\ actionState' = [id \in DOMAIN actionState |-> "Pending"]
    /\ artifacts' = {}

CanBegin ==
    /\ stages # <<>>
    /\ execution # "InProgress"
    /\ Len(startedBy) < MaxExecutions
    /\ \A id \in DOMAIN actionState : actionState[id] # "Running"

\* An operator releases a change by hand.
StartPipelineExecution ==
    /\ CanBegin
    /\ Begin("manual")
    /\ UNCHANGED <<stages, commits>>
    /\ UNCHANGED <<ouVars, accessVars>>

\* A change is pushed to a repository; a source action on that repository whose
\* trigger is not NONE starts an execution.
RepositoryChange(repo) ==
    /\ stages # <<>>
    /\ commits < MaxCommits
    /\ commits' = commits + 1
    /\ IF /\ CanBegin
          /\ \E id \in DOMAIN actionState :
                 /\ ActionAt(id).repository = Some(repo)
                 /\ ActionAt(id).trigger # Some("NONE")
          THEN Begin("change")
          ELSE UNCHANGED <<actionState, execution, startedBy, artifacts>>
    /\ UNCHANGED stages
    /\ UNCHANGED <<ouVars, accessVars>>

\* An action starts when every earlier stage has succeeded and every action of
\* its stage with a lower run order has succeeded.
StartAction(id) ==
    /\ execution = "InProgress"
    /\ id \in DOMAIN actionState
    /\ actionState[id] = "Pending"
    /\ \A other \in DOMAIN actionState :
           (\/ other[1] < id[1]
            \/ /\ other[1] = id[1]
               /\ RunOrderOf(ActionAt(other)) < RunOrderOf(ActionAt(id)))
               => actionState[other] = "Succeeded"
    /\ actionState' = [actionState EXCEPT ![id] = "Running"]
    /\ UNCHANGED <<stages, execution, startedBy, artifacts, commits>>
    /\ UNCHANGED <<ouVars, accessVars>>

\* A running action succeeds and stores its output artifacts.
SucceedAction(id) ==
    /\ id \in DOMAIN actionState
    /\ actionState[id] = "Running"
    /\ actionState' = [actionState EXCEPT ![id] = "Succeeded"]
    /\ artifacts' = artifacts \cup ActionAt(id).outputs
    /\ execution' =
           IF execution = "InProgress"
              /\ \A other \in DOMAIN actionState \ {id} :
                     actionState[other] = "Succeeded"
              THEN "Succeeded" ELSE execution
    /\ UNCHANGED <<stages, startedBy, commits>>
    /\ UNCHANGED <<ouVars, accessVars>>

\* A running action fails; the execution fails and starts no further action.
FailAction(id) ==
    /\ id \in DOMAIN actionState
    /\ actionState[id] = "Running"
    /\ actionState' = [actionState EXCEPT ![id] = "Failed"]
    /\ execution' = "Failed"
    /\ UNCHANGED <<stages, startedBy, artifacts, commits>>
    /\ UNCHANGED <<ouVars, accessVars>>

(***************************************************************************)
(* EnableAwsServiceAccess                                                  *)
(***************************************************************************)
ServicePrincipals ==
    {"config.amazonaws.com", "guardduty.amazonaws.com", "securityhub.amazonaws.com"}
EnableAwsServiceAccessProps == [servicePrincipal : ServicePrincipals]

\* Mutant: the props are not spread into the properties.
ResourceProperties_NoSpread(props) ==
    [partition |-> "aws", servicePrincipal |-> "undefined"]

\* properties: { partition: cdk.Aws.PARTITION, ...props }
ResourceProperties(props) ==
    [partition |-> "aws", servicePrincipal |-> props.servicePrincipal]

\* new EnableAwsServiceAccess(scope, id, props): registers the custom resource
EnableAwsServiceAccess(props) ==
    /\ Len(grants) < MaxGrants
    /\ grants' = Append(grants,
           [servicePrincipal |-> props.servicePrincipal,
            resource |-> [resourceType |-> "Custom::EnableAwsServiceAccess",
                          properties |-> ResourceProperties(props)],
            state |-> "Declared"])
    /\ UNCHANGED <<enabled, lastEvent>>
    /\ UNCHANGED <<ouVars, pipelineVars>>

\* organizations:EnableAWSServiceAccess and organizations:DisableAWSServiceAccess
enableAWSServiceAccess(org, principal) == org \cup {principal}
disableAWSServiceAccess(org, principal) == org \ {principal}

\* The custom resource handler: the operation is chosen by the request type.
onEvent(requestType, properties, org) ==
    IF requestType \in {"Create", "Update"}
        THEN enableAWSServiceAccess(org, properties.servicePrincipal)
        ELSE disableAWSServiceAccess(org, properties.servicePrincipal)

\* The state of a custom resource after a lifecycle event.
StateAfter(requestType) == IF requestType = "Delete" THEN "Deleted" ELSE "Created"

\* The provisioning engine sends a lifecycle event of grant g to the handler:
\* Create for a declared resource, Update or Delete for a created one.
LifecycleEvent(g, requestType) ==
    /\ g \in 1..Len(grants)
    /\ \/ requestType = "Create" /\ grants[g].state = "Declared"
       \/ requestType \in {"Update", "Delete"} /\ grants[g].state = "Created"
    /\ enabled' = onEvent(requestType, grants[g].resource.properties, enabled)
    /\ grants' = [grants EXCEPT ![g].state = StateAfter(requestType)]
    /\ lastEvent' = Some([requestType |-> requestType, grant |-> g, before |-> enabled])
    /\ UNCHANGED <<ouVars, pipelineVars>>

OUIdle ==
    /\ isLogGroupConfigured = FALSE
    /\ units = <<>>
    /\ providers = {}
    /\ customResources = <<>>
    /\ logGroups = <<>>
    /\ phase = "synth"
    /\ deployed = {}

PipelineIdle ==
    /\ stages = <<>>
    /\ actionState = <<>>
    /\ execution = "Idle"
    /\ startedBy = <<>>
    /\ artifacts = {}
    /\ commits = 0

AccessIdle ==
    /\ grants = <<>>
    /\ lastEvent = None

InitOU == OUIdle /\ PipelineIdle /\ AccessIdle /\ enabled = {}

AllRefs ==
    {Handler(s) : s \in Stacks}
        \cup [kind : {"Resource", "LogGroup"}, unit : 1..MaxUnits]

NextOU ==
    \/ \E scope \in Stacks, props \in OrganizationalUnitProps :
           OrganizationalUnit(scope, props)
    \/ Synthesize
    \/ \E ref \in AllRefs : DeployResource(ref)

SpecOU == InitOU /\ [][NextOU]_vars

InitPipeline == OUIdle /\ PipelineIdle /\ AccessIdle /\ enabled = {}

AllActionIds == UNION {ActionIds(AddedStages(props)) : props \in AcceleratorPipelineProps}

NextPipeline ==
    \/ \E props \in AcceleratorPipelineProps : AcceleratorPipeline(props)
    \/ StartPipelineExecution
    \/ \E repo \in SourceRepositoryNames \cup {configRepository} : RepositoryChange(repo)
    \/ \E id \in AllActionIds : StartAction(id)
    \/ \E id \in AllActionIds : SucceedAction(id)
    \/ \E id \in AllActionIds : FailAction(id)

SpecPipeline == InitPipeline /\ [][NextPipeline]_vars

\* The organization may already have service principals enabled.
InitAccess == OUIdle /\ PipelineIdle /\ AccessIdle /\ enabled \in SUBSET ServicePrincipals

NextAccess ==
    \/ \E props \in EnableAwsServiceAccessProps : EnableAwsServiceAccess(props)
    \/ \E g \in 1..MaxGrants, requestType \in {"Create", "Update", "Delete"} :
           LifecycleEvent(g, requestType)

SpecAccess == InitAccess /\ [][NextAccess]_vars

(***************************************************************************)
(* Properties of OrganizationalUnit (checked under SpecOU)                 *)
(***************************************************************************)
LogGroupIndices == 1..Len(logGroups)
UnitIndices == 1..Len(units)

\* C1: after any sequence of N >= 1 OrganizationalUnit instantiations in one
\* process, whatever their names, paths, keys and retention values, exactly one
\* LogGroup construct has been created.
C1_ExactlyOneLogGroup == Len(units) >= 1 => Len(logGroups) = 1

\* Three units instantiated, in two stacks, and one log group.
C1_Witness ==
    /\ Len(units) >= 3
    /\ units[1].scope # units[2].scope
    /\ units[1].props # units[3].props
    /\ Len(logGroups) = 1

\* C2: first instantiation wins: the single log group is a child of the first
\* OrganizationalUnit instantiated and carries that instance's logRetentionInDays
\* and kmsKey; the props of later instances have no effect on any log group.
C2_FirstInstantiationWins ==
    Len(units) >= 1 =>
        /\ Len(logGroups) = 1
        /\ \A i \in LogGroupIndices :
               /\ logGroups[i].unit = units[1].id
               /\ logGroups[i].retention = units[1].props.logRetentionInDays
               /\ logGroups[i].encryptionKey = units[1].props.kmsKey

\* A later unit with another key and another retention left the log group as
\* the first unit configured it.
C2_Witness ==
    /\ Len(units) >= 2
    /\ units[2].props.kmsKey # units[1].props.kmsKey
    /\ units[2].props.logRetentionInDays # units[1].props.logRetentionInDays
    /\ Len(logGroups) = 1
    /\ logGroups[1].encryptionKey = units[1].props.kmsKey
    /\ logGroups[1].encryptionKey # units[2].props.kmsKey
    /\ logGroups[1].retention # units[2].props.logRetentionInDays

\* C7: in every stack in which at least one OrganizationalUnit is instantiated
\* a log group named /aws/lambda/<that stack's handler> has been created.
C7_LogGroupForEveryHandler ==
    \A i \in UnitIndices :
        \E j \in LogGroupIndices :
            logGroups[j].logGroupName = <<"/aws/lambda/", Handler(units[i].scope)>>

\* C8: the dependency on the log group is added to exactly one custom
\* resource, that of the unit that created the log group; no other custom
\* resource depends on it, and in a deployment that respects the declared
\* dependencies the first unit's custom resource is created after the log group.
C8_OnlyCreatorDependsOnLogGroup ==
    Len(units) >= 1 =>
        /\ Len(logGroups) >= 1
        /\ {i \in 1..Len(customResources) : customResources[i].dependsOn # {}}
               = {logGroups[1].unit}
        /\ logGroups[1].unit = 1
        /\ customResources[1].dependsOn = {[kind |-> "LogGroup", unit |-> 1]}
        /\ [kind |-> "Resource", unit |-> 1] \in deployed
               => [kind |-> "LogGroup", unit |-> 1] \in deployed

\* A later unit's custom resource exists while the log group does not yet.
C8_Witness ==
    /\ phase = "deploy"
    /\ Len(units) >= 2
    /\ customResources[2].dependsOn = {}
    /\ [kind |-> "Resource", unit |-> 2] \in deployed
    /\ [kind |-> "LogGroup", unit |-> 1] \notin deployed
    /\ [kind |-> "Resource", unit |-> 1] \notin deployed

(***************************************************************************)
(* Properties of AcceleratorPipeline (checked under SpecPipeline)          *)
(***************************************************************************)
Constructed == stages # <<>>
ActionPositions == DOMAIN actionState
StageNameOf(id) == stages[id[1]].stageName
IdOf(stageName, actionName) ==
    CHOOSE id \in ActionPositions :
        StageNameOf(id) = stageName /\ ActionAt(id).actionName = actionName
Started(id) == actionState[id] # "Pending"

\* C3: the constructor adds exactly seven stages, Source, Build, Bootstrap,
\* Logging, Organization, SecurityAudit, Deploy, in that order, and in any
\* execution no action of a stage starts before every action of the preceding
\* stage has completed.
C3_SevenStagesInOrder ==
    Constructed =>
        /\ [i \in 1..Len(stages) |-> stages[i].stageName]
               = <<"Source", "Build", "Bootstrap", "Logging", "Organization",
                   "SecurityAudit", "Deploy">>
        /\ \A id \in ActionPositions :
               Started(id) =>
                   \A other \in ActionPositions :
                       other[1] = id[1] - 1 => actionState[other] = "Succeeded"

\* An execution has reached the last stage.
C3_Witness ==
    /\ Constructed
    /\ Len(stages) = 7
    /\ \E id \in ActionPositions : id[1] = 7 /\ actionState[id] = "Running"

\* C4: an explicit run-order is given only to actions of the final Deploy
\* stage; every action of Source, Build, Bootstrap, Logging, Organization and
\* SecurityAudit is created without one.
C4_RunOrderOnlyInDeploy ==
    Constructed =>
        /\ stages[Len(stages)].stageName = "Deploy"
        /\ \A id \in ActionPositions :
               ActionAt(id).runOrder # None => id[1] = Len(stages)
        /\ \A id \in ActionPositions :
               StageNameOf(id) \in {"Source", "Build", "Bootstrap", "Logging",
                                    "Organization", "SecurityAudit"}
                   => ActionAt(id).runOrder = None
        /\ \E id \in ActionPositions :
               StageNameOf(id) = "Deploy" /\ ActionAt(id).runOrder = Some(1)

\* The Deploy stage's action, declared with run order 1, is running.
C4_Witness ==
    /\ Constructed
    /\ \E id \in ActionPositions :
           /\ StageNameOf(id) = "Deploy"
           /\ ActionAt(id).runOrder = Some(1)
           /\ actionState[id] = "Running"

\* C5 as stated: every action of every stage has a run-order integer, an input
\* artifact reference and zero or more output artifact references.
C5_EveryActionHasInput ==
    \A id \in ActionPositions :
        /\ RunOrderOf(ActionAt(id)) \in Nat
        /\ ActionAt(id).input # None
        /\ Cardinality(ActionAt(id).outputs) >= 0

\* C5, amended: every action has a run-order integer (the declared one, or the
\* default) and zero or more output artifact references; every action outside
\* the Source stage has an input artifact reference; the two actions of the
\* Source stage have none and have one output each.
C5_InputOutsideSourceStage ==
    \A id \in ActionPositions :
        /\ RunOrderOf(ActionAt(id)) \in Nat \ {0}
        /\ Cardinality(ActionAt(id).outputs) >= 0
        /\ StageNameOf(id) # "Source" => Len(ActionAt(id).input) = 1
        /\ StageNameOf(id) = "Source" =>
               /\ ActionAt(id).input = None
               /\ ActionAt(id).extraInputs = {}
               /\ Cardinality(ActionAt(id).outputs) = 1

\* The pipeline is assembled: two source actions without input, and the
\* actions of the later stages with one.
C5_Witness ==
    /\ Constructed
    /\ Cardinality({id \in ActionPositions : ActionAt(id).input = None}) = 2
    /\ Cardinality({id \in ActionPositions : ActionAt(id).input # None}) = 6

\* C9: every artifact an action consumes is an output of an action of a
\* strictly earlier stage: Build consumes 'Source' and produces 'Build'; each
\* toolkit action consumes 'Build' with 'Config' as extra input and produces
\* nothing; so no action that has started reads an artifact not yet stored.
C9_InputsProducedEarlier ==
    Constructed =>
        /\ \A id \in ActionPositions :
               \A art \in InputsOf(ActionAt(id)) :
                   \E p \in ActionPositions :
                       p[1] < id[1] /\ art \in ActionAt(p).outputs
        /\ ActionAt(IdOf("Source", "Source")).outputs = {"Source"}
        /\ ActionAt(IdOf("Source", "Configuration")).outputs = {"Config"}
        /\ ActionAt(IdOf("Build", "Build")).input = Some("Source")
        /\ ActionAt(IdOf("Build", "Build")).outputs = {"Build"}
        /\ \A id \in ActionPositions :
               StageNameOf(id) \in {"Bootstrap", "Logging", "Organization",
                                    "SecurityAudit", "Deploy"}
                   => /\ ActionAt(id).input = Some("Build")
                      /\ ActionAt(id).extraInputs = {"Config"}
                      /\ ActionAt(id).outputs = {}
        /\ \A id \in ActionPositions :
               Started(id) => InputsOf(ActionAt(id)) \subseteq artifacts

\* A toolkit action runs with both of its inputs stored.
C9_Witness ==
    /\ Constructed
    /\ \E id \in ActionPositions :
           /\ StageNameOf(id) = "Organization"
           /\ actionState[id] = "Running"
           /\ InputsOf(ActionAt(id)) = {"Build", "Config"}
           /\ InputsOf(ActionAt(id)) \subseteq artifacts

\* C10: the Source and Configuration actions of the Source stage have equal
\* (default) run-order, so either may finish first; the Build action starts
\* only after both have completed; no execution is started by a repository
\* change, as both actions use trigger NONE.
C10_SourceActionsConcurrent ==
    Constructed =>
        /\ ActionAt(IdOf("Source", "Source")).runOrder = None
        /\ ActionAt(IdOf("Source", "Configuration")).runOrder = None
        /\ RunOrderOf(ActionAt(IdOf("Source", "Source")))
               = RunOrderOf(ActionAt(IdOf("Source", "Configuration")))
        /\ Started(IdOf("Build", "Build")) =>
               /\ actionState[IdOf("Source", "Source")] = "Succeeded"
               /\ actionState[IdOf("Source", "Configuration")] = "Succeeded"
        /\ ActionAt(IdOf("Source", "Source")).trigger = Some("NONE")
        /\ ActionAt(IdOf("Source", "Configuration")).trigger = Some("NONE")
        /\ \A i \in 1..Len(startedBy) : startedBy[i] = "manual"

\* After a repository change, in an execution started by hand, Configuration
\* has finished while Source, declared before it, is still running.
C10_Witness ==
    /\ Constructed
    /\ commits >= 1
    /\ startedBy = <<"manual">>
    /\ actionState[IdOf("Source", "Source")] = "Running"
    /\ actionState[IdOf("Source", "Configuration")] = "Succeeded"
    /\ actionState[IdOf("Build", "Build")] = "Pending"

(***************************************************************************)
(* Properties of EnableAwsServiceAccess (checked under SpecAccess)         *)
(***************************************************************************)
\* C6: the lifecycle event chooses one of two idempotent operations on the
\* declared service principal: create or update enables it, delete disables
\* it; enabling an enabled principal, or disabling a disabled one, leaves the
\* organization's set of enabled principals unchanged, and no other principal
\* is affected.
C6_IdempotentToggle ==
    lastEvent # None =>
        LET e == lastEvent[1]
            principal == grants[e.grant].servicePrincipal
            enables == e.requestType \in {"Create", "Update"}
        IN /\ e.requestType \in {"Create", "Update", "Delete"}
           /\ enables => principal \in enabled
           /\ ~enables => principal \notin enabled
           /\ (enables /\ principal \in e.before) => enabled = e.before
           /\ (~enables /\ principal \notin e.before) => enabled = e.before
           /\ \A other \in ServicePrincipals \ {principal} :
                  other \in enabled <=> other \in e.before
           /\ enabled \subseteq ServicePrincipals

\* An update of a grant whose principal was enabled already left the set as it
\* was, with another principal enabled beside it.
C6_Witness ==
    /\ lastEvent # None
    /\ lastEvent[1].requestType = "Update"
    /\ grants[lastEvent[1].grant].servicePrincipal \in lastEvent[1].before
    /\ enabled = lastEvent[1].before
    /\ Cardinality(enabled) >= 2
====
